---- MODULE Spec2Model ----
(***************************************************************************)
(* NScript (nds-console): lexer, recursive-descent parser and tree-walking *)
(* evaluator of src/source/nscript.cpp, as a state machine.                *)
(*                                                                         *)
(* Source text is a sequence of one-character strings; offsets are 0-based *)
(* as in the code (character i of the text is expr[i + 1]).  A Node is a   *)
(* record [kind, num, str, sub, pos]: num is the float64 payload as an     *)
(* exact fraction <<numerator, denominator>>, str the text payload, sub    *)
(* the owned children (Bin: left, right, op; Una: term, op; Assign: name,  *)
(* expr; Call: name, args...).                                             *)
(***************************************************************************)
EXTENDS Integers, Sequences, FiniteSets, TLC

VARIABLES
  pc,        \* where the host is: "idle", "parse", "evaluate", "done"
  expr,      \* Parser::expr, the source text
  ast,       \* the Node the parser returned
  map,       \* Evaluator::map, the Environment
  prevMap,   \* the Environment when the current call began
  result,    \* the value returned or the Error thrown by the current call
  trace,     \* history of the current evaluation
  written,   \* text the current call wrote to stdout
  calls,     \* number of texts submitted so far
  assigned   \* history: name -> value of the latest completed Assign, before this call

vars == <<pc, expr, ast, map, prevMap, result, trace, written, calls, assigned>>

(***************************************************************************)
(* Characters                                                              *)
(***************************************************************************)
Digits == {"0", "1", "2", "3", "4", "5", "6", "7", "8", "9"}

Letters == {"a", "b", "c", "d", "e", "f", "g", "h", "i", "j", "k", "l", "m",
            "n", "o", "p", "q", "r", "s", "t", "u", "v", "w", "x", "y", "z", "_"}

Whitespace == {" "}

Punctuation == {"+", "-", "*", "/", "(", ")", ",", "="}

isIdentifierChar(c, isStart) == c \in Letters \/ (~isStart /\ c \in Digits)

isNumChar(c, isStart) == c \in Digits \/ (~isStart /\ c = ".")

DigitVal(c) == CASE c = "0" -> 0 [] c = "1" -> 1 [] c = "2" -> 2 [] c = "3" -> 3
                 [] c = "4" -> 4 [] c = "5" -> 5 [] c = "6" -> 6 [] c = "7" -> 7
                 [] c = "8" -> 8 [] c = "9" -> 9

DigitChar(d) == CASE d = 0 -> "0" [] d = 1 -> "1" [] d = 2 -> "2" [] d = 3 -> "3"
                  [] d = 4 -> "4" [] d = 5 -> "5" [] d = 6 -> "6" [] d = 7 -> "7"
                  [] d = 8 -> "8" [] d = 9 -> "9"

(***************************************************************************)
(* float64 payloads as exact fractions                                     *)
(***************************************************************************)
Abs(n) == IF n < 0 THEN -n ELSE n

RECURSIVE GCD(_, _)
GCD(a, b) == IF b = 0 THEN a ELSE GCD(b, a % b)

Norm(n, d) ==
  LET g == GCD(Abs(n), Abs(d))
      s == IF d < 0 THEN -1 ELSE 1
  IN  IF n = 0 THEN <<0, 1>> ELSE <<(s * n) \div g, (s * d) \div g>>

Zero == <<0, 1>>

NumAdd(l, r) == Norm(l[1] * r[2] + r[1] * l[2], l[2] * r[2])
NumSub(l, r) == Norm(l[1] * r[2] - r[1] * l[2], l[2] * r[2])
NumMul(l, r) == Norm(l[1] * r[1], l[2] * r[2])
NumDiv(l, r) == Norm(l[1] * r[2], l[2] * r[1])

RECURSIVE Pow10(_)
Pow10(k) == IF k = 0 THEN 1 ELSE 10 * Pow10(k - 1)

RECURSIVE DigitsValue(_)
DigitsValue(s) ==
  IF s = <<>> THEN 0
  ELSE 10 * DigitsValue(SubSeq(s, 1, Len(s) - 1)) + DigitVal(s[Len(s)])

countOccurrences(s, c) == Cardinality({i \in 1..Len(s) : s[i] = c})

\* atof on a sequence of digits with at most one dot
atof(seq) ==
  LET dots == {i \in 1..Len(seq) : seq[i] = "."}
      dot  == IF dots = {} THEN Len(seq) + 1 ELSE CHOOSE i \in dots : TRUE
      int  == SubSeq(seq, 1, dot - 1)
      frac == SubSeq(seq, dot + 1, Len(seq))
  IN  Norm(DigitsValue(int \o frac), Pow10(Len(frac)))

(***************************************************************************)
(* Position, Error, Node                                                   *)
(***************************************************************************)
Position(s, e) == [startPos |-> s, endPos |-> e]

Error(msg, pos) == [msg |-> msg, pos |-> pos]

NoError == Error("", Position(0, 0))

Node(kind, num, str, sub, pos) ==
  [kind |-> kind, num |-> num, str |-> str, sub |-> sub, pos |-> pos]

NodeBad(pos) == Node("Bad", Zero, <<>>, <<>>, pos)

NodeNone(pos) == Node("None", Zero, <<>>, <<>>, pos)

PunctKind(c) == CASE c = "+" -> "Plus" [] c = "-" -> "Minus" [] c = "*" -> "Star"
                  [] c = "/" -> "Slash" [] c = "(" -> "LPar" [] c = ")" -> "RPar"
                  [] c = "," -> "Comma" [] c = "=" -> "Eq"

BinNode(left, right, op) == <<left, right, op>>
UnaNode(term, op) == <<term, op>>
AssignNode(name, e) == <<name, e>>
CallNode(name, args) == <<name>> \o args

(***************************************************************************)
(* Lexer.  A parser state p is [expr, exprIndex, curToken, prevToken,      *)
(* node, err]; a thrown Error sets err and every later step passes it on.  *)
(***************************************************************************)
Parser(text) ==
  [expr |-> text, exprIndex |-> 0, curToken |-> NodeBad(Position(0, 1)),
   prevToken |-> NodeBad(Position(0, 1)), node |-> NodeBad(Position(0, 1)),
   err |-> NoError]

Throw(p, msg, pos) == [p EXCEPT !.err = Error(msg, pos)]

Failed(p) == p.err.msg # ""

eof(p, off) == p.exprIndex + off >= Len(p.expr)

curChar(p, off) == p.expr[p.exprIndex + off + 1]

curPos(p, off) == Position(p.exprIndex + off, p.exprIndex + off + 1)

RECURSIVE eatWhitespaces(_)
eatWhitespaces(p) ==
  IF ~eof(p, 0) /\ curChar(p, 0) \in Whitespace
  THEN eatWhitespaces([p EXCEPT !.exprIndex = @ + 1])
  ELSE p

\* the three checkers handed to collectSequence
checker(which, p) ==
  CASE which = "num"    -> isNumChar(curChar(p, 0), FALSE)
    [] which = "ident"  -> isIdentifierChar(curChar(p, 0), FALSE)
    [] which = "string" -> curChar(p, 0) # "'"
                           \/ (curChar(p, -1) = "\\" /\ curChar(p, -2) # "\\")

RECURSIVE collectLoop(_, _, _)
collectLoop(which, p, r) ==
  IF ~eof(p, 0) /\ checker(which, p)
  THEN collectLoop(which, [p EXCEPT !.exprIndex = @ + 1], Append(r, curChar(p, 0)))
  ELSE [p |-> p, seq |-> r]

collectSequence(which, p) ==
  LET c == collectLoop(which, p, <<>>)
  IN  [p |-> [c.p EXCEPT !.exprIndex = @ - 1], seq |-> c.seq]

escapeChar(c) == CASE c = "n" -> "\n" [] c = "t" -> "\t" [] c = "\\" -> "\\"
                   [] c = "'" -> "'" [] OTHER -> "?"

isEscapeChar(c) == c \in {"n", "t", "\\", "'"}

RECURSIVE escapesToEscaped(_, _, _)
\* result [str, err]; i is the 0-based index of the loop
escapesToEscaped(s, pos, i) ==
  IF i >= Len(s) THEN [str |-> <<>>, err |-> NoError]
  ELSE IF s[i + 1] = "\\"
       THEN IF i + 1 >= Len(s) \/ ~isEscapeChar(s[i + 2])
            THEN [str |-> <<>>,
                  err |-> Error("unknown escape", Position(pos.startPos + i, pos.startPos + i + 1))]
            ELSE LET rest == escapesToEscaped(s, pos, i + 2)
                 IN  [str |-> <<escapeChar(s[i + 2])>> \o rest.str, err |-> rest.err]
       ELSE LET rest == escapesToEscaped(s, pos, i + 1)
            IN  [str |-> <<s[i + 1]>> \o rest.str, err |-> rest.err]

RECURSIVE escapedToEscapes(_)
escapedToEscapes(s) ==
  IF s = <<>> THEN <<>>
  ELSE (CASE s[1] = "\n" -> <<"\\", "n">> [] s[1] = "\t" -> <<"\\", "t">>
          [] s[1] = "\\" -> <<"\\", "\\">> [] s[1] = "'" -> <<"\\", "'">>
          [] OTHER -> <<s[1]>>) \o escapedToEscapes(Tail(s))

\* each collector returns [p, tok]
collectStringToken(p0) ==
  LET p1       == [p0 EXCEPT !.exprIndex = @ + 1]
      startPos == p1.exprIndex - 1
      c        == collectSequence("string", p1)
      pos      == Position(startPos, c.p.exprIndex + 2)
      p2       == [c.p EXCEPT !.exprIndex = @ + 1]
      un       == escapesToEscaped(c.seq, pos, 0)
  IN  IF eof(p2, 0)
      THEN [p |-> Throw(p2, "unclosed string", Position(startPos, p2.exprIndex)),
            tok |-> NodeBad(pos)]
      ELSE IF un.err.msg # ""
      THEN [p |-> [p2 EXCEPT !.err = un.err], tok |-> NodeBad(pos)]
      ELSE [p |-> p2, tok |-> Node("String", Zero, un.str, <<>>, pos)]

collectNumToken(p0) ==
  LET startPos == p0.exprIndex
      c        == collectSequence("num", p0)
      p1       == c.p
      seq      == c.seq
      pos      == Position(startPos, p1.exprIndex + 1)
  IN  IF countOccurrences(seq, ".") > 1
      THEN [p |-> Throw(p1, "number cannot include more than one dot", pos),
            tok |-> NodeBad(pos)]
      ELSE IF seq[Len(seq)] = "."
      THEN [p |-> Throw(p1, "number cannot end with a dot", pos), tok |-> NodeBad(pos)]
      ELSE IF ~eof(p1, 1) /\ isIdentifierChar(curChar(p1, 1), FALSE)
      THEN [p |-> Throw(p1, "number cannot include part of identifier",
                        Position(pos.startPos, curPos(p1, 1).endPos)),
            tok |-> NodeBad(pos)]
      ELSE [p |-> p1, tok |-> Node("Num", atof(seq), <<>>, <<>>, pos)]

convertToKeywordWhenPossible(token) ==
  IF token.kind # "Identifier" THEN token
  ELSE IF token.str = <<"n", "o", "n", "e">> THEN [token EXCEPT !.kind = "None"]
  ELSE token

collectIdentifierToken(p0) ==
  LET startPos == p0.exprIndex
      c        == collectSequence("ident", p0)
  IN  [p |-> c.p,
       tok |-> Node("Identifier", Zero, c.seq, <<>>, Position(startPos, c.p.exprIndex + 1))]

nextToken(p0) ==
  LET p1 == eatWhitespaces(p0)
  IN  IF eof(p1, 0) THEN [p |-> p1, tok |-> Node("Eof", Zero, <<>>, <<>>, curPos(p1, 0))]
      ELSE LET c == curChar(p1, 0)
               r == IF isIdentifierChar(c, TRUE)
                    THEN LET i == collectIdentifierToken(p1)
                         IN  [p |-> i.p, tok |-> convertToKeywordWhenPossible(i.tok)]
                    ELSE IF isNumChar(c, TRUE) THEN collectNumToken(p1)
                    ELSE IF c = "'" THEN collectStringToken(p1)
                    ELSE IF c \in Punctuation
                    THEN [p |-> p1, tok |-> Node(PunctKind(c), Zero, <<c>>, <<>>, curPos(p1, 0))]
                    ELSE [p |-> p1, tok |-> NodeBad(curPos(p1, 0))]
           IN  IF Failed(r.p) THEN r
               ELSE [p |-> [r.p EXCEPT !.exprIndex = @ + 1], tok |-> r.tok]

(***************************************************************************)
(* Parser                                                                  *)
(***************************************************************************)
\* prevToken = curToken; curToken = nextToken(), t being what nextToken returned
advanceTo(p, t) == [t.p EXCEPT !.prevToken = p.curToken, !.curToken = t.tok]

advance(p) == IF Failed(p) THEN p ELSE advanceTo(p, nextToken(p))

eofToken(p) == p.curToken.kind = "Eof"

expectTokenAndAdvance(p, kind) ==
  IF Failed(p) THEN p
  ELSE IF p.curToken.kind # kind THEN Throw(p, "unexpected token", p.curToken.pos)
  ELSE advance(p)

RECURSIVE expectExpression(_)
RECURSIVE expectBinaryOrTerm(_, _, _)
RECURSIVE binaryLoop(_, _, _)
RECURSIVE expectTerm(_)
RECURSIVE collectAssignNode(_, _)
RECURSIVE collectCallNode(_, _)
RECURSIVE callLoop(_, _, _, _)

\* the two expectors handed to expectBinaryOrTerm
expector(which, p) ==
  IF which = "expectTerm" THEN expectTerm(p)
  ELSE expectBinaryOrTerm("expectTerm", {"Star", "Slash"}, p)

\* left = Node(Bin, new BinNode(left, right, op), Position(...))
makeBin(left, op, p1) ==
  IF Failed(p1) THEN p1
  ELSE [p1 EXCEPT !.node = Node("Bin", Zero, <<>>, BinNode(left, p1.node, op),
                                Position(left.pos.startPos, p1.node.pos.endPos))]

\* seeded fault: the right operand takes the whole rest of the level, operators of
\* one level group to the right
binaryLoopRight(which, operators, p) ==
  IF Failed(p) THEN p
  ELSE IF ~eofToken(p) /\ p.curToken.kind \in operators
  THEN makeBin(p.node, p.curToken, expectBinaryOrTerm(which, operators, advance(p)))
  ELSE p

binaryLoop(which, operators, p) ==
  IF Failed(p) THEN p
  ELSE IF ~eofToken(p) /\ p.curToken.kind \in operators
  THEN binaryLoop(which, operators, makeBin(p.node, p.curToken, expector(which, advance(p))))
  ELSE p

expectBinaryOrTerm(which, operators, p) == binaryLoop(which, operators, expector(which, p))

expectExpression(p) == expectBinaryOrTerm("expectFactors", {"Plus", "Minus"}, p)

\* term = Node(Una, new UnaNode(term, op), Position(...))
makeUna(op, t) ==
  IF Failed(t) THEN t
  ELSE [t EXCEPT !.node = Node("Una", Zero, <<>>, UnaNode(t.node, op),
                               Position(op.pos.startPos, t.node.pos.endPos))]

\* the switch of expectTerm, p1 being the parser after getCurAndAdvance()
termSwitch(p1) ==
  IF Failed(p1) THEN p1
  ELSE IF p1.prevToken.kind \in {"Identifier", "Num", "String", "None"}
  THEN [p1 EXCEPT !.node = p1.prevToken]
  ELSE IF p1.prevToken.kind \in {"Plus", "Minus"}
  THEN makeUna(p1.prevToken, expectTerm(p1))
  ELSE IF p1.prevToken.kind = "LPar"
  THEN expectTokenAndAdvance(expectExpression(p1), "RPar")
  ELSE Throw(p1, "unexpected token", p1.prevToken.pos)

\* the end of expectTerm, p2 being the parser after the switch
termPostfix(p2) ==
  IF Failed(p2) THEN p2
  ELSE IF p2.curToken.kind = "LPar" THEN collectCallNode(p2.node, p2)
  ELSE IF p2.curToken.kind = "Eq" THEN collectAssignNode(p2.node, p2)
  ELSE p2

expectTerm(p) == IF Failed(p) THEN p ELSE termPostfix(termSwitch(advance(p)))

\* return Node(Assign, new AssignNode(name, expr), Position(...))
makeAssign(name, p1) ==
  IF Failed(p1) THEN p1
  ELSE [p1 EXCEPT !.node = Node("Assign", Zero, <<>>, AssignNode(name, p1.node),
                                Position(name.pos.startPos, p1.node.pos.endPos))]

collectAssignNode(name, p) ==
  IF name.kind # "Identifier"
  THEN Throw(p, "expected an identifier when assigning", name.pos)
  ELSE makeAssign(name, expectExpression(advance(p)))

\* return Node(Call, new CallNode(name, args), Position(...))
makeCall(name, args, p1) ==
  IF Failed(p1) THEN p1
  ELSE [p1 EXCEPT !.node = Node("Call", Zero, <<>>, CallNode(name, args),
                                Position(name.pos.startPos, p1.prevToken.pos.endPos))]

\* args.push_back(expectExpression()) and the next turn of the loop
pushArg(name, startPos, args, p2) ==
  IF Failed(p2) THEN p2 ELSE callLoop(name, startPos, Append(args, p2.node), p2)

callLoop(name, startPos, args, p) ==
  IF Failed(p) THEN p
  ELSE IF eofToken(p)
  THEN Throw(p, "unclosed call parameters list", Position(startPos, p.prevToken.pos.endPos))
  ELSE IF p.curToken.kind = "RPar" THEN makeCall(name, args, advance(p))
  ELSE pushArg(name, startPos, args,
               expectExpression(IF Len(args) > 0 THEN expectTokenAndAdvance(p, "Comma") ELSE p))

collectCallNode(name, p) ==
  IF name.kind # "Identifier" /\ name.kind # "String"
  THEN Throw(p, "expected string or identifier call name", name.pos)
  ELSE callLoop(name, p.curToken.pos.startPos, <<>>, advance(p))

parse(text) == expectExpression(advance(Parser(text)))

(***************************************************************************)
(* Node::toString                                                          *)
(***************************************************************************)
RECURSIVE NatToString(_)
NatToString(n) ==
  IF n < 10 THEN <<DigitChar(n)>> ELSE Append(NatToString(n \div 10), DigitChar(n % 10))

RECURSIVE PadDigits(_, _)
PadDigits(n, width) ==
  IF width = 0 THEN <<>> ELSE Append(PadDigits(n \div 10, width - 1), DigitChar(n % 10))

\* std::to_string(double): "%f", six decimals
to_string(q) ==
  LET a     == Abs(q[1])
      whole == a \div q[2]
      frac  == ((a % q[2]) * 1000000 + (q[2] \div 2)) \div q[2]
      w     == IF frac = 1000000 THEN whole + 1 ELSE whole
      f     == IF frac = 1000000 THEN 0 ELSE frac
  IN  (IF q[1] < 0 THEN <<"-">> ELSE <<>>) \o NatToString(w) \o <<".">> \o PadDigits(f, 6)

RECURSIVE cutTrailingZeros(_)
cutTrailingZeros(s) ==
  IF s[Len(s)] = "0" THEN cutTrailingZeros(SubSeq(s, 1, Len(s) - 1))
  ELSE IF s[Len(s)] = "." THEN SubSeq(s, 1, Len(s) - 1)
  ELSE s

RECURSIVE toString(_)
RECURSIVE argsToString(_, _)

\* the Call case's loop over args (1-based index i into sub, args start at 2)
argsToString(sub, i) ==
  IF i > Len(sub) THEN <<>>
  ELSE (IF i > 2 THEN <<",", " ">> ELSE <<>>) \o toString(sub[i]) \o argsToString(sub, i + 1)

toString(n) ==
  CASE n.kind = "Num"    -> cutTrailingZeros(to_string(n.num))
    [] n.kind = "String" -> <<"'">> \o escapedToEscapes(n.str) \o <<"'">>
    [] n.kind = "Bin"    -> toString(n.sub[1]) \o <<" ">> \o toString(n.sub[3]) \o <<" ">>
                            \o toString(n.sub[2])
    [] n.kind = "Una"    -> toString(n.sub[2]) \o toString(n.sub[1])
    [] n.kind = "Assign" -> toString(n.sub[1]) \o <<" ", "=", " ">> \o toString(n.sub[2])
    [] n.kind = "Call"   -> toString(n.sub[1]) \o <<"(">> \o argsToString(n.sub, 2) \o <<")">>
    [] n.kind = "Eof"    -> <<"<", "e", "o", "f", ">">>
    [] OTHER             -> n.str

(***************************************************************************)
(* Evaluator.  An evaluator state e is [map, written, trace, err]: map is  *)
(* the Environment (a sequence of KeyPair), written the text sent to the   *)
(* output sink, trace a history of the reads, writes, Bin and print        *)
(* evaluations performed, err the thrown Error (msg "" when none thrown).  *)
(* A panic is the outcome err.msg = "panic".                               *)
(***************************************************************************)
KeyPair(key, val) == [key |-> key, val |-> val]

Event(ev, node, l, r, val, err, before, after) ==
  [ev |-> ev, node |-> node, l |-> l, r |-> r, val |-> val, err |-> err,
   before |-> before, after |-> after]

Raise(e, msg, pos) == [e EXCEPT !.err = Error(msg, pos)]

Raised(e) == e.err.msg # ""

Log(e, event) == [e EXCEPT !.trace = Append(@, event)]

Void == NodeBad(Position(0, 0))

\* what uint64_t(double) may yield where the conversion is undefined (the
\* truncated value is outside 0 .. 2^64 - 1): a saturating build gives 0, a
\* wrapping build a huge value, for which HugeNum stands
HugeNum == 30000

UBOutcomes == {Zero, <<HugeNum, 1>>}

Trunc(q) == IF q[1] >= 0 THEN q[1] \div q[2] ELSE -((-q[1]) \div q[2])

toUint64(q, ub) == IF Trunc(q) >= 0 THEN <<Trunc(q), 1>> ELSE ub

RECURSIVE evaluateNode(_, _, _)
RECURSIVE evaluateBin(_, _, _)
RECURSIVE evaluateUna(_, _, _)
RECURSIVE evaluateAssign(_, _, _)
RECURSIVE evaluateCall(_, _, _)
RECURSIVE builtinFloor(_, _, _)

\* each returns [e, val]
expectArgsCount(call, count, e) ==
  IF Len(call.sub) - 1 # count THEN Raise(e, "expected args", call.sub[1].pos) ELSE e

builtinFloor(call, e, ub) ==
  LET e1 == expectArgsCount(call, 1, e)
  IN  IF Raised(e1) THEN [e |-> e1, val |-> Void]
      ELSE LET a == evaluateNode(call.sub[2], e1, ub)
           IN  IF Raised(a.e) THEN a
               ELSE IF a.val.kind # "Num"
               THEN [e |-> Raise(a.e, "expected a value with type", call.sub[2].pos), val |-> Void]
               ELSE [e |-> a.e, val |-> [a.val EXCEPT !.num = toUint64(@, ub)]]

RECURSIVE printArgs(_, _)
printArgs(sub, i) == IF i > Len(sub) THEN <<>> ELSE toString(sub[i]) \o printArgs(sub, i + 1)

\* seeded fault: print evaluates its arguments and writes the values
RECURSIVE printEvaluated(_, _, _)
printEvaluated(sub, i, e) ==
  IF i > Len(sub) \/ Raised(e) THEN e
  ELSE LET a == evaluateNode(sub[i], e, Zero)
       IN  printEvaluated(sub, i + 1,
             IF Raised(a.e) THEN a.e ELSE [a.e EXCEPT !.written = @ \o toString(a.val)])

builtinPrintEvaluating(call, pos, e) ==
  LET e1 == printEvaluated(call.sub, 2, e)
  IN  [e |-> Log(e1, Event("print", call, Void, Void, NodeNone(pos), "", e.map, e1.map)),
       val |-> NodeNone(pos)]

builtinPrint(call, pos, e) ==
  LET e1 == [e EXCEPT !.written = @ \o printArgs(call.sub, 2)]
      v  == NodeNone(pos)
  IN  [e |-> Log(e1, Event("print", call, Void, Void, v, "", e.map, e1.map)), val |-> v]

evaluateCallProcess(call, pos, e) ==
  [e |-> Raise(e, "panic", pos), val |-> Void]

evaluateCall(call, e, ub) ==
  IF call.sub[1].kind = "String" THEN evaluateCallProcess(call, call.pos, e)
  ELSE IF call.sub[1].str = <<"p", "r", "i", "n", "t">> THEN builtinPrint(call, call.pos, e)
  ELSE IF call.sub[1].str = <<"f", "l", "o", "o", "r">> THEN builtinFloor(call, e, ub)
  ELSE [e |-> Raise(e, "unknown builtin function", call.sub[1].pos), val |-> Void]

\* seeded fault: the scan is skipped, every Assign appends
mapStoreAppend(m, name, val) == Append(m, KeyPair(name, val))

\* seeded fault: an existing definition is found but its value is not overwritten
mapStoreKeep(m, name, val) ==
  IF \E i \in 1..Len(m) : m[i].key = name THEN m ELSE Append(m, KeyPair(name, val))

\* the scan and the push_back of evaluateAssign
mapStore(m, name, val) ==
  IF \E i \in 1..Len(m) : m[i].key = name
  THEN LET i == CHOOSE i \in 1..Len(m) :
                  m[i].key = name /\ \A j \in 1..(i - 1) : m[j].key # name
       IN  [m EXCEPT ![i].val = val]
  ELSE Append(m, KeyPair(name, val))

\* seeded fault: the Assign evaluates to the assigned value
evaluateAssignValue(assign, e, ub) ==
  LET name == assign.sub[1].str
      x    == evaluateNode(assign.sub[2], e, ub)
  IN  IF Raised(x.e) THEN x
      ELSE LET m == mapStore(x.e.map, name, x.val)
           IN  [e |-> Log([x.e EXCEPT !.map = m],
                          Event("write", assign, Void, Void, x.val, "", x.e.map, m)),
                val |-> x.val]

evaluateAssign(assign, e, ub) ==
  LET name == assign.sub[1].str
      x    == evaluateNode(assign.sub[2], e, ub)
  IN  IF Raised(x.e) THEN x
      ELSE LET m == mapStore(x.e.map, name, x.val)
               v == NodeNone(assign.pos)
           IN  [e |-> Log([x.e EXCEPT !.map = m],
                          Event("write", assign, Void, Void, x.val, "", x.e.map, m)),
                val |-> v]

\* seeded fault: the operand is a reference into the Environment, the sign is
\* applied to the stored value
evaluateUnaInPlace(una, e, ub) ==
  LET t == evaluateNode(una.sub[1], e, ub)
  IN  IF Raised(t.e) THEN t
      ELSE IF t.val.kind # "Num"
      THEN [e |-> Raise(t.e, "does not support unary", t.val.pos), val |-> Void]
      ELSE LET v == [t.val EXCEPT !.num = NumMul(@, IF una.sub[2].kind = "Minus"
                                                     THEN <<-1, 1>> ELSE <<1, 1>>)]
           IN  [e |-> IF una.sub[1].kind = "Identifier"
                      THEN [t.e EXCEPT !.map = mapStore(@, una.sub[1].str, v)]
                      ELSE t.e,
                val |-> v]

evaluateUna(una, e, ub) ==
  LET t == evaluateNode(una.sub[1], e, ub)
  IN  IF Raised(t.e) THEN t
      ELSE IF t.val.kind # "Num"
      THEN [e |-> Raise(t.e, "does not support unary", t.val.pos), val |-> Void]
      ELSE [e |-> t.e,
            val |-> [t.val EXCEPT !.num = NumMul(@, IF una.sub[2].kind = "Minus"
                                                    THEN <<-1, 1>> ELSE <<1, 1>>)]]

\* seeded fault: the operator check is missing, every operator concatenates
evaluateOperationStrAnyOp(op, l, r) == [val |-> l \o r, err |-> NoError]

\* [val, err]
evaluateOperationStr(op, l, r) ==
  IF op.kind # "Plus"
  THEN [val |-> <<>>, err |-> Error("string does not support bin", op.pos)]
  ELSE [val |-> l \o r, err |-> NoError]

evaluateOperationNum(op, l, r, rPos) ==
  CASE op = "Plus"  -> [val |-> NumAdd(l, r), err |-> NoError]
    [] op = "Minus" -> [val |-> NumSub(l, r), err |-> NoError]
    [] op = "Star"  -> [val |-> NumMul(l, r), err |-> NoError]
    [] op = "Slash" -> IF r = Zero THEN [val |-> Zero, err |-> Error("dividing by 0", rPos)]
                       ELSE [val |-> NumDiv(l, r), err |-> NoError]
    [] OTHER        -> [val |-> Zero, err |-> Error("panic", rPos)]

\* the part of evaluateBin after both operands are evaluated: [val, err]
applyBin(bin, left, right) ==
  LET op == bin.sub[3]
  IN  IF left.kind # right.kind
      THEN [val |-> Void, err |-> Error("unkwnon bin between different types", op.pos)]
      ELSE IF left.kind = "Num"
      THEN LET n == evaluateOperationNum(op.kind, left.num, right.num, right.pos)
           IN  [val |-> [left EXCEPT !.num = n.val, !.pos.endPos = right.pos.endPos],
                err |-> n.err]
      ELSE IF left.kind = "String"
      THEN LET s == evaluateOperationStr(op, left.str, right.str)
           IN  [val |-> [left EXCEPT !.str = s.val, !.pos.endPos = right.pos.endPos],
                err |-> s.err]
      ELSE [val |-> Void, err |-> Error("does not support bin", op.pos)]

evaluateBin(bin, e, ub) ==
  LET l == evaluateNode(bin.sub[1], e, ub)
  IN  IF Raised(l.e) THEN l
      ELSE LET r == evaluateNode(bin.sub[2], l.e, ub)
           IN  IF Raised(r.e) THEN r
               ELSE LET b == applyBin(bin, l.val, r.val)
                        v == IF b.err.msg # "" THEN Void ELSE b.val
                        e1 == Log(r.e, Event("bin", bin, l.val, r.val, v, b.err.msg,
                                             r.e.map, r.e.map))
                    IN  [e |-> [e1 EXCEPT !.err = b.err], val |-> v]

evaluateIdentifier(identifier, e) ==
  IF \E i \in 1..Len(e.map) : e.map[i].key = identifier.str
  THEN LET i == CHOOSE i \in 1..Len(e.map) :
                  e.map[i].key = identifier.str
                  /\ \A j \in 1..(i - 1) : e.map[j].key # identifier.str
       IN  [e |-> Log(e, Event("read", identifier, Void, Void, e.map[i].val, "", e.map, e.map)),
            val |-> e.map[i].val]
  ELSE [e |-> Log(Raise(e, "unknown variable", identifier.pos),
                  Event("read", identifier, Void, Void, Void, "unknown variable", e.map, e.map)),
        val |-> Void]

evaluateNode(node, e, ub) ==
  CASE node.kind \in {"Num", "String", "None"} -> [e |-> e, val |-> node]
    [] node.kind = "Bin"        -> evaluateBin(node, e, ub)
    [] node.kind = "Una"        -> evaluateUna(node, e, ub)
    [] node.kind = "Identifier" -> evaluateIdentifier(node, e)
    [] node.kind = "Assign"     -> evaluateAssign(node, e, ub)
    [] node.kind = "Call"       -> evaluateCall(node, e, ub)
    [] OTHER                    -> [e |-> Raise(e, "panic", node.pos), val |-> Void]

(***************************************************************************)
(* Inputs: source texts the host hands to the parser                       *)
(***************************************************************************)
RECURSIVE Flatten(_)
Flatten(ss) == IF ss = <<>> THEN <<>> ELSE ss[1] \o Flatten(Tail(ss))

\* every text made of at most n lexemes of the alphabet
LexemeTexts(alphabet, n) ==
  {Flatten(f) : f \in UNION {[1..k -> alphabet] : k \in 0..n}}

MaxArithOps == 3
MaxCallLen == 5
MaxMixLen == 3

ArithDigits == {<<"2">>, <<"3">>}

ArithOps == {<<"+">>, <<"-">>, <<"*">>, <<"/">>}

\* the arithmetic expressions with exactly k binary operators and pairs of parentheses
RECURSIVE Arith(_)
Arith(k) ==
  IF k = 0 THEN ArithDigits
  ELSE {<<"(">> \o e \o <<")">> : e \in Arith(k - 1)}
         \cup UNION {{l \o op \o r : l \in Arith(i), op \in ArithOps, r \in Arith(k - 1 - i)} :
                     i \in 0..(k - 1)}

DocExamples ==
  {<<"2", " ", "+", " ", "3", " ", "*", " ", "4">>,
   <<"(", "2", " ", "+", " ", "3", ")", " ", "*", " ", "4">>,
   <<"8", " ", "-", " ", "3", " ", "-", " ", "2">>}

ArithTexts == UNION {Arith(k) : k \in 0..MaxArithOps} \cup DocExamples

CallAlphabet == {<<"f">>, <<"(">>, <<")">>, <<",">>, <<"1">>}

MixAlphabet == {<<" ">>, <<"1">>, <<".">>, <<"x">>, <<"'">>, <<"+">>, <<"-">>, <<"(">>, <<")">>,
                <<"=">>, <<",">>, <<"#">>, <<"n", "o", "n", "e">>, <<"\\">>}

ParserTexts ==
  ArithTexts \cup LexemeTexts(CallAlphabet, MaxCallLen) \cup LexemeTexts(MixAlphabet, MaxMixLen)

sp == <<" ">>
print == <<"p", "r", "i", "n", "t">>
floor == <<"f", "l", "o", "o", "r">>

Names == {<<"x">>, <<"a", "b", "c">>}

Operands == {<<"x">>, <<"1">>, <<"0">>, <<"'", "a", "'">>, <<"n", "o", "n", "e">>}

Atoms == Names \cup Operands

BinOps == {<<"+">>, <<"-">>, <<"*">>, <<"/">>}

UnaOps == {<<"+">>, <<"-">>}

BinTexts(ls, rs) == {l \o sp \o op \o sp \o r : l \in ls, op \in BinOps, r \in rs}

AssignTexts(ns, es) == {n \o sp \o <<"=">> \o sp \o e : n \in ns, e \in es}

UnaTexts(es) == {op \o e : op \in UnaOps, e \in es}

\* calls of f with no argument, one argument of es, two arguments of es
CallTexts(f, es) ==
  {f \o <<"(", ")">>}
    \cup {f \o <<"(">> \o e \o <<")">> : e \in es}
    \cup {f \o <<"(">> \o e1 \o <<",", " ">> \o e2 \o <<")">> : e1 \in es, e2 \in es}

PrintArgs ==
  AssignTexts({<<"x">>}, {<<"1">>})
    \cup {<<"y">>, <<"1", " ", "/", " ", "0">>, <<"'", "a", "'", " ", "-", " ", "1">>,
          <<"2", ".", "5">>}

SessionTexts ==
  Atoms
    \cup BinTexts(Operands, Operands)
    \cup AssignTexts(Names, Atoms \cup BinTexts({<<"x">>}, {<<"1">>, <<"'", "a", "'">>})
                              \cup AssignTexts(Names, {<<"5">>}))
    \cup UnaTexts(Operands)
    \cup BinTexts(UnaTexts({<<"1">>}), {<<"1">>})
    \cup BinTexts({<<"(">> \o n \o <<" ", "=", " ", "1", ")">> : n \in Names}, {<<"x">>})
    \cup CallTexts(floor, {<<"x">>, <<"2", ".", "5">>, <<"-", "x">>})
    \cup CallTexts(print, PrintArgs)
    \cup CallTexts(<<"g">>, {}) \cup CallTexts(<<"'", "a", "'">>, {})

MaxCalls == 3

(***************************************************************************)
(* The session: the host submits a text, the Parser parses it, the         *)
(* Evaluator evaluates the tree against the session's Environment, the     *)
(* host takes the result.                                                   *)
(***************************************************************************)
NoResult == [val |-> Void, err |-> NoError]

Evaluator(m) == [map |-> m, written |-> <<>>, trace |-> <<>>, err |-> NoError]

RECURSIVE callsFloor(_)
callsFloor(n) ==
  (n.kind = "Call" /\ n.sub[1].str = floor) \/ \E i \in 1..Len(n.sub) : callsFloor(n.sub[i])

UBChoices(n) == IF callsFloor(n) THEN UBOutcomes ELSE {Zero}

\* history: the value of the latest completed Assign to each name, after the
\* write events of a trace are applied to h in order
RECURSIVE completedAssigns(_, _)
completedAssigns(t, h) ==
  IF t = <<>> THEN h
  ELSE completedAssigns(Tail(t),
         IF t[1].ev = "write" THEN (t[1].node.sub[1].str :> t[1].val) @@ h ELSE h)

Init ==
  /\ pc = "idle"
  /\ expr = <<>>
  /\ ast = Void
  /\ map = <<>>
  /\ prevMap = <<>>
  /\ result = NoResult
  /\ trace = <<>>
  /\ written = <<>>
  /\ calls = 0
  /\ assigned = <<>>

Submit ==
  /\ pc = "idle"
  /\ calls < MaxCalls
  /\ \E text \in SessionTexts : expr' = text
  /\ pc' = "parse"
  /\ calls' = calls + 1
  /\ UNCHANGED <<ast, map, prevMap, result, trace, written, assigned>>

\* what the caller keeps of a finished parse: its error, or its tree to evaluate
ParseDone(p) ==
  IF Failed(p)
  THEN /\ pc' = "done"
       /\ ast' = Void
       /\ result' = [val |-> Void, err |-> p.err]
  ELSE /\ pc' = "evaluate"
       /\ ast' = p.node
       /\ result' = NoResult

Parse ==
  /\ pc = "parse"
  /\ ParseDone(parse(expr))
  /\ prevMap' = map
  /\ UNCHANGED <<expr, map, trace, written, calls, assigned>>

Evaluate ==
  /\ pc = "evaluate"
  /\ \E ub \in UBChoices(ast) :
       LET r == evaluateNode(ast, Evaluator(map), ub)
       IN  /\ map' = r.e.map
           /\ trace' = r.e.trace
           /\ written' = r.e.written
           /\ result' = [val |-> r.val, err |-> r.e.err]
  /\ prevMap' = map
  /\ pc' = "done"
  /\ UNCHANGED <<expr, ast, calls, assigned>>

Return ==
  /\ pc = "done"
  /\ pc' = "idle"
  /\ expr' = <<>>
  /\ ast' = Void
  /\ prevMap' = map
  /\ result' = NoResult
  /\ trace' = <<>>
  /\ written' = <<>>
  /\ assigned' = completedAssigns(trace, assigned)
  /\ UNCHANGED <<map, calls>>

Next == Submit \/ Parse \/ Evaluate \/ Return

Spec == Init /\ [][Next]_vars

\* one parse and evaluation of each text, against an empty Environment
InitParser ==
  /\ pc = "parse"
  /\ expr \in ParserTexts
  /\ ast = Void
  /\ map = <<>>
  /\ prevMap = <<>>
  /\ result = NoResult
  /\ trace = <<>>
  /\ written = <<>>
  /\ calls = 1
  /\ assigned = <<>>

NextParser == Parse \/ Evaluate

SpecParser == InitParser /\ [][NextParser]_vars

(***************************************************************************)
(* Properties of the session (specification Spec)                          *)
(***************************************************************************)
IsBound(m, name) == \E i \in 1..Len(m) : m[i].key = name

Binding(m, name) == m[CHOOSE i \in 1..Len(m) : m[i].key = name].val

Events(ev) == {k \in 1..Len(trace) : trace[k].ev = ev}

Target(w) == w.node.sub[1].str

RECURSIVE Contains(_, _)
Contains(n, m) == n = m \/ \E i \in 1..Len(n.sub) : Contains(n.sub[i], m)

Text(n) == SubSeq(expr, n.pos.startPos + 1, n.pos.endPos)

WriteInPlaceOrAppend(w) ==
  LET present == {i \in 1..Len(w.before) : w.before[i].key = Target(w)}
  IN  IF present # {}
      THEN /\ Len(w.after) = Len(w.before)
           /\ \A i \in 1..Len(w.before) :
                /\ w.after[i].key = w.before[i].key
                /\ w.after[i].val = IF i \in present THEN w.val ELSE w.before[i].val
      ELSE /\ Len(w.after) = Len(w.before) + 1
           /\ SubSeq(w.after, 1, Len(w.before)) = w.before
           /\ w.after[Len(w.after)] = KeyPair(Target(w), w.val)

\* the map snapshots of the write events are the Environment's successive contents
WritesChain ==
  LET ws == Events("write")
  IN  /\ \A k \in ws :
           trace[k].before = IF \E j \in ws : j < k
                             THEN trace[CHOOSE j \in ws : j < k /\ \A i \in ws : i < k => i <= j].after
                             ELSE prevMap
      /\ map = IF ws = {} THEN prevMap
               ELSE trace[CHOOSE j \in ws : \A i \in ws : i <= j].after

\* C1: in every state of a session that started with an empty Environment, after
\* any evaluate calls (completed or aborted by an error), no two pairs of the
\* Environment have the same name; every Assign to a name already present
\* overwrites that pair's value at its index and leaves the rest as it was, and
\* every Assign to an absent name appends exactly one pair.
C1_NamesUnique ==
  /\ \A i, j \in 1..Len(map) : map[i].key = map[j].key => i = j
  /\ WritesChain
  /\ \A k \in Events("write") : WriteInPlaceOrAppend(trace[k])

C1_Witness ==
  /\ pc = "done"
  /\ \E k \in Events("write") :
       /\ IsBound(trace[k].before, Target(trace[k]))
       /\ Binding(trace[k].before, Target(trace[k])) # trace[k].val
       /\ Len(map) = 2

\* the value the k-th event, a read, has to return: that of the latest completed
\* Assign to the name, in this call or an earlier one
LatestAssign(k) ==
  LET n  == trace[k].node.str
      ws == {j \in Events("write") : j < k /\ Target(trace[j]) = n}
  IN  IF ws # {} THEN <<trace[CHOOSE j \in ws : \A i \in ws : i <= j].val>>
      ELSE IF n \in DOMAIN assigned THEN <<assigned[n]>>
      ELSE <<>>

\* C2: every evaluation of an Identifier n returns the value of the right-hand side
\* of the most recent completed Assign to n of the session (of this evaluate call
\* or an earlier one), and raises "unknown variable" exactly when no Assign to n
\* has completed.
C2_ReadAfterWrite ==
  /\ \A k \in Events("read") :
       IF LatestAssign(k) # <<>>
       THEN trace[k].err = "" /\ trace[k].val = LatestAssign(k)[1]
       ELSE trace[k].err = "unknown variable" /\ k = Len(trace)
            /\ result.err.msg = "unknown variable"
  /\ (pc = "done" /\ ast.kind = "Identifier" =>
        /\ Events("read") = {1}
        /\ result.err.msg = trace[1].err
        /\ result.err.msg = "" => result.val = trace[1].val)

C2_Witness ==
  /\ pc = "done"
  /\ expr = <<"x", " ", "+", " ", "1">>
  /\ assigned = (<<"x">> :> Node("Num", <<1, 1>>, <<>>, <<>>, Position(4, 5)))
  /\ result.err.msg = ""
  /\ result.val.num = <<2, 1>>

BinRaises(op, l, r) ==
  \/ l.kind # r.kind
  \/ l.kind = "String" /\ r.kind = "String" /\ op # "Plus"
  \/ l.kind = r.kind /\ l.kind \notin {"Num", "String"}
  \/ l.kind = "Num" /\ r.kind = "Num" /\ op = "Slash" /\ r.num[1] = 0

\* q is the reduced fraction of n / d
IsFraction(q, n, d) == q[2] > 0 /\ q[1] * d = n * q[2] /\ GCD(Abs(q[1]), q[2]) = 1

Arithmetic(op, l, r, q) ==
  CASE op = "Plus"  -> IsFraction(q, l[1] * r[2] + r[1] * l[2], l[2] * r[2])
    [] op = "Minus" -> IsFraction(q, l[1] * r[2] - r[1] * l[2], l[2] * r[2])
    [] op = "Star"  -> IsFraction(q, l[1] * r[1], l[2] * r[2])
    [] op = "Slash" -> IsFraction(q, l[1] * r[2] * (IF r[1] < 0 THEN -1 ELSE 1),
                                  l[2] * Abs(r[1]))

\* C4: a Bin node whose two operands evaluated without error raises an error
\* exactly when the operands' kinds differ, or both are String and the operator is
\* not +, or both are of a kind other than Num and String, or both are Num, the
\* operator is / and the right value is zero; otherwise it returns a value of the
\* operands' kind: the arithmetic result for Num, the concatenation for String.
C4_BinErrors ==
  \A k \in Events("bin") :
    LET b  == trace[k]
        op == b.node.sub[3].kind
    IN  /\ (b.err # "") <=> BinRaises(op, b.l, b.r)
        /\ b.err # "" => k = Len(trace) /\ result.err.msg = b.err
        /\ b.err = "" =>
             /\ b.val.kind = b.l.kind
             /\ b.l.kind = "Num" => Arithmetic(op, b.l.num, b.r.num, b.val.num)
             /\ b.l.kind = "String" => b.val.str = b.l.str \o b.r.str

C4_Witness ==
  /\ pc = "done"
  /\ \E k \in Events("bin") :
       /\ trace[k].l.kind = "String"
       /\ trace[k].r.kind = "String"
       /\ trace[k].node.sub[3].kind = "Minus"
       /\ result.err.msg = "string does not support bin"

IsPrintCall(n) == n.kind = "Call" /\ n.sub[1].kind = "Identifier" /\ n.sub[1].str = print

RECURSIVE ArgTexts(_, _)
ArgTexts(sub, i) == IF i > Len(sub) THEN <<>> ELSE Text(sub[i]) \o ArgTexts(sub, i + 1)

\* C5: evaluating print(args...) evaluates no argument: whatever the arguments
\* (assignments, unbound identifiers, divisions by zero, ill-typed operations), the
\* Environment is unchanged, no error is raised, nothing is read, written or
\* computed, the text written is the concatenation of the arguments' renderings
\* (for these canonically spaced inputs, the arguments' own source text), and the
\* result is None.
C5_PrintDoesNotEvaluate ==
  pc = "done" /\ IsPrintCall(ast) =>
    /\ map = prevMap
    /\ result.err = NoError
    /\ result.val.kind = "None"
    /\ Events("read") = {} /\ Events("write") = {} /\ Events("bin") = {}
    /\ written = printArgs(ast.sub, 2)
    /\ written = ArgTexts(ast.sub, 2)

C5_Witness ==
  /\ pc = "done"
  /\ expr = print \o <<"(", "x", " ", "=", " ", "1", ",", " ", "y", ")">>
  /\ written = <<"x", " ", "=", " ", "1", "y">>
  /\ ~IsBound(map, <<"x">>)

\* C8 (the claim as stated): the value of every successfully evaluated Bin node
\* has the Position from the start of the node's left operand to the end of its
\* right operand.
C8_BinResultPosition ==
  \A k \in Events("bin") :
    trace[k].err = "" =>
      trace[k].val.pos = Position(trace[k].node.sub[1].pos.startPos,
                                  trace[k].node.sub[2].pos.endPos)

\* the value e evaluated to, t being the trace up to the end of e's evaluation
RhsValue(e, t) ==
  CASE e.kind \in {"Num", "String", "None"} -> e
    [] e.kind = "Assign"                    -> NodeNone(e.pos)
    [] OTHER                                -> t[Len(t)].val

\* C9: evaluating n = e evaluates e completely and then stores e's value under n
\* (the write is the last thing the evaluation does); when e raises an error this
\* Assign writes nothing; the Assign evaluates to None, so abc = x = 5 binds x to
\* the number 5 and abc to None.
C9_AssignOrder ==
  pc = "done" /\ ast.kind = "Assign" =>
    LET n == ast.sub[1].str
        e == ast.sub[2]
    IN  /\ result.err.msg = "" =>
             /\ result.val = NodeNone(ast.pos)
             /\ trace # <<>>
             /\ trace[Len(trace)].ev = "write"
             /\ trace[Len(trace)].node = ast
             /\ trace[Len(trace)].val = RhsValue(e, SubSeq(trace, 1, Len(trace) - 1))
             /\ IsBound(map, n)
             /\ Binding(map, n) = trace[Len(trace)].val
        /\ result.err.msg # "" =>
             /\ \A k \in Events("write") : trace[k].node # ast
             /\ (\A k \in Events("write") : Target(trace[k]) # n) =>
                  /\ IsBound(map, n) <=> IsBound(prevMap, n)
                  /\ IsBound(map, n) => Binding(map, n) = Binding(prevMap, n)
        /\ expr = <<"a", "b", "c", " ", "=", " ", "x", " ", "=", " ", "5">> =>
             /\ result.err.msg = ""
             /\ Binding(map, <<"x">>).kind = "Num"
             /\ Binding(map, <<"x">>).num = <<5, 1>>
             /\ Binding(map, <<"a", "b", "c">>).kind = "None"

C9_Witness ==
  /\ pc = "done"
  /\ expr = <<"a", "b", "c", " ", "=", " ", "x", " ", "=", " ", "5">>
  /\ Len(map) = 2
  /\ Binding(map, <<"a", "b", "c">>).kind = "None"
  /\ Binding(map, <<"x">>).num = <<5, 1>>

Assigns(n) == \E k \in Events("write") : Target(trace[k]) = n /\ Contains(ast, trace[k].node)

ReadOnlyTexts ==
  {floor \o <<"(", "x", ")">>, <<"-", "x">>, <<"+", "x">>, <<"x", " ", "+", " ", "1">>,
   <<"x", " ", "+", " ", "'", "a", "'">>}

\* C10: an evaluation changes the binding of a name only if the expression holds an
\* evaluated Assign to that name, and removes no binding: every pair of the
\* Environment before the call is still at its index afterwards, with its value
\* unless the name was assigned, and every new pair is of an assigned name; so
\* floor(x), -x, +x, x + 1 and x + 'a' leave the Environment exactly as it was.
C10_OnlyAssignWrites ==
  pc = "done" =>
    /\ Len(prevMap) <= Len(map)
    /\ \A i \in 1..Len(prevMap) :
         /\ map[i].key = prevMap[i].key
         /\ map[i].val # prevMap[i].val => Assigns(map[i].key)
    /\ \A i \in (Len(prevMap) + 1)..Len(map) : Assigns(map[i].key)
    /\ expr \in ReadOnlyTexts => map = prevMap

C10_Witness ==
  /\ pc = "done"
  /\ expr = <<"-", "x">>
  /\ result.err.msg = ""
  /\ result.val.num = <<-1, 1>>
  /\ map = prevMap
  /\ Binding(map, <<"x">>).num = <<1, 1>>

(***************************************************************************)
(* Properties of the parser (specification SpecParser)                     *)
(***************************************************************************)
StripSpaces(s) == SelectSeq(s, LAMBDA c : c # " ")

\* nesting depth of the character at index i
Depth(s, i) ==
  Cardinality({j \in 1..(i - 1) : s[j] = "("}) - Cardinality({j \in 1..(i - 1) : s[j] = ")"})

TopLevel(s, ops) == {i \in 2..(Len(s) - 1) : s[i] \in ops /\ Depth(s, i) = 0}

Invalid == [ok |-> FALSE, tree |-> <<>>, val |-> Zero, div0 |-> FALSE]

\* conventional reading of an arithmetic text without spaces: split at the last
\* + or - outside parentheses, else at the last * or /, else drop the enclosing
\* parentheses, else read the number; tree is the fully parenthesised text
RECURSIVE Conventional(_)
Conventional(s) ==
  LET adds == TopLevel(s, {"+", "-"})
      muls == TopLevel(s, {"*", "/"})
      at   == IF adds # {} THEN CHOOSE i \in adds : \A j \in adds : j <= i
              ELSE CHOOSE i \in muls : \A j \in muls : j <= i
  IN  IF adds # {} \/ muls # {}
      THEN LET l == Conventional(SubSeq(s, 1, at - 1))
               r == Conventional(SubSeq(s, at + 1, Len(s)))
               z == s[at] = "/" /\ r.val = Zero
           IN  IF ~l.ok \/ ~r.ok THEN Invalid
               ELSE [ok   |-> TRUE,
                     tree |-> <<"(">> \o l.tree \o <<s[at]>> \o r.tree \o <<")">>,
                     div0 |-> l.div0 \/ r.div0 \/ z,
                     val  |-> IF l.div0 \/ r.div0 \/ z THEN Zero
                              ELSE CASE s[at] = "+" -> NumAdd(l.val, r.val)
                                     [] s[at] = "-" -> NumSub(l.val, r.val)
                                     [] s[at] = "*" -> NumMul(l.val, r.val)
                                     [] s[at] = "/" -> NumDiv(l.val, r.val)]
      ELSE IF Len(s) >= 2 /\ s[1] = "(" /\ s[Len(s)] = ")"
      THEN Conventional(SubSeq(s, 2, Len(s) - 1))
      ELSE IF s # <<>> /\ \A i \in 1..Len(s) : s[i] \in Digits
      THEN [ok |-> TRUE, tree |-> s, val |-> <<DigitsValue(s), 1>>, div0 |-> FALSE]
      ELSE Invalid

\* the Bin tree of the parser, fully parenthesised
RECURSIVE TreeText(_)
TreeText(n) ==
  CASE n.kind = "Num" -> NatToString(n.num[1])
    [] n.kind = "Bin" -> <<"(">> \o TreeText(n.sub[1]) \o n.sub[3].str \o TreeText(n.sub[2])
                         \o <<")">>
    [] OTHER          -> <<"?">>

\* C3: for every text of numeric literals joined by binary + - * / with optional
\* parentheses, the parser succeeds and builds the Bin tree of the conventional
\* reading (* and / bind tighter than + and -, equal levels group to the left),
\* and evaluating the tree gives the conventional value, or "dividing by 0" where
\* the conventional reading divides by zero: 2 + 3 * 4 is 14, (2 + 3) * 4 is 20,
\* 8 - 3 - 2 is 3.
C3_Precedence ==
  pc = "done" /\ expr \in ArithTexts =>
    LET c == Conventional(StripSpaces(expr))
    IN  /\ c.ok
        /\ ast.kind \in {"Num", "Bin"}
        /\ TreeText(ast) = c.tree
        /\ c.div0 => result.err.msg = "dividing by 0"
        /\ ~c.div0 => result.err.msg = "" /\ result.val.kind = "Num" /\ result.val.num = c.val
        /\ expr = <<"2", " ", "+", " ", "3", " ", "*", " ", "4">> => result.val.num = <<14, 1>>
        /\ expr = <<"(", "2", " ", "+", " ", "3", ")", " ", "*", " ", "4">>
             => result.val.num = <<20, 1>>
        /\ expr = <<"8", " ", "-", " ", "3", " ", "-", " ", "2">> => result.val.num = <<3, 1>>

C3_Witness ==
  /\ pc = "done"
  /\ expr = <<"3", "-", "2", "*", "3", "-", "2">>
  /\ TreeText(ast) = <<"(", "(", "3", "-", "(", "2", "*", "3", ")", ")", "-", "2", ")">>
  /\ result.val.num = <<-5, 1>>

\* the expression nodes below n, n included
RECURSIVE ExprNodes(_)
ExprNodes(n) ==
  {n} \cup UNION {ExprNodes(n.sub[i]) :
                  i \in CASE n.kind = "Bin"    -> {1, 2}
                          [] n.kind = "Una"    -> {1}
                          [] n.kind = "Assign" -> {1, 2}
                          [] n.kind = "Call"   -> 1..Len(n.sub)
                          [] OTHER             -> {}}

RECURSIVE Shift(_, _)
Shift(n, k) ==
  [n EXCEPT !.pos = Position(n.pos.startPos - k, n.pos.endPos - k),
            !.sub = [i \in 1..Len(n.sub) |-> Shift(n.sub[i], k)]]

\* the Position of n covers exactly n's source text: the text of the span, parsed
\* on its own, is n itself and nothing else
CoversSource(n) ==
  /\ 0 <= n.pos.startPos /\ n.pos.startPos < n.pos.endPos /\ n.pos.endPos <= Len(expr)
  /\ LET q == parse(Text(n))
     IN  ~Failed(q) /\ eofToken(q) /\ q.node = Shift(n, n.pos.startPos)
  /\ expr[n.pos.startPos + 1] # " " /\ expr[n.pos.endPos] # " "

\* C7 (the claim as stated): every Node the parser produces carries the half-open
\* Position of exactly its source text, enclosing parentheses included.
C7_PositionInvariant ==
  pc = "evaluate" => \A n \in ExprNodes(ast) : CoversSource(n)

LastChar(s) == LET t == StripSpaces(s) IN IF t = <<>> THEN "" ELSE t[Len(t)]

IsWholeCall(text) ==
  LET q == parse(text)
  IN  ~Failed(q) /\ eofToken(q) /\ q.node.kind = "Call" /\ q.node.pos = Position(0, Len(text))

\* the text is a call cut off by the end of input after `name(`, after an argument
\* or after a comma
CutCall(text) ==
  \/ LastChar(text) # "," /\ IsWholeCall(text \o <<")">>)
  \/ LastChar(text) = "," /\ IsWholeCall(text \o <<"1", ")">>)

CommasBetweenArgs(n) ==
  \A i \in 2..(Len(n.sub) - 1) :
    \E j \in (n.sub[i].pos.endPos + 1)..n.sub[i + 1].pos.startPos : expr[j] = ","

\* C6 (the claim as stated): a call whose argument list is cut off by the end of
\* input, after `name(`, after an argument or after a comma, raises "unclosed call
\* parameters list"; name() parses to a Call without arguments; every argument
\* after the first is preceded by a comma.
C6_UnclosedCall ==
  /\ pc = "done" /\ CutCall(expr) => result.err.msg = "unclosed call parameters list"
  /\ pc = "evaluate" /\ expr = <<"f", "(", ")">> => ast.kind = "Call" /\ Len(ast.sub) = 1
  /\ pc = "evaluate" => \A n \in ExprNodes(ast) : n.kind = "Call" => CommasBetweenArgs(n)

====
